---- MODULE Spec2Model ----
(***************************************************************************)
(* FooterPart (docx/parts/footer.py): the lazily created dependent parts   *)
(* (styles, numbering, settings) reached over typed relationships, and the *)
(* next_id allocator over the id attributes of the part's XML subtree.     *)
(***************************************************************************)
EXTENDS Integers, Sequences, FiniteSets, TLC

VARIABLES
    rels,             \* outbound relationships of this part: records [reltype, target]
    parts,            \* part instances of the package; the index is the instance
    numbering_cache,  \* slot of the lazyproperty numbering_part (0: not computed yet)
    first_result,     \* per singleton type: the part its accessor returned first (0: never)
    subtree,          \* the id attribute values of the XML subtree, in document order
    ret,              \* outcome of the last operation
    last_id,          \* the value next_id returned last (0: it never returned)
    dirty,            \* the subtree was written or pruned since next_id returned last
    issued,           \* values next_id returned that were written into the subtree
    sibling,          \* another part of the package: its subtree and its last next_id
    threads           \* threads inside an accessor of this part, and their discipline

vars == <<rels, parts, numbering_cache, first_result, subtree, ret, last_id,
          dirty, issued, sibling, threads>>

\* ------------------------------------------------------------------ bounds

MaxElems == 4      \* id attributes in the subtree
MaxImages == 1     \* relationships of a non-singleton type loaded with the part
MaxId == 10        \* largest id value the callers allocate
MaxSiblingElems == 2   \* id attributes in the subtree of the sibling part
NumThreads == 2        \* threads that access one accessor of the part

\* ------------------------------------------------------- id attribute text

\* A character is a one-character string, with three names for characters
\* outside ASCII: "u0663" is U+0663 (ARABIC-INDIC DIGIT THREE) and "uFF11" is
\* U+FF11 (FULLWIDTH DIGIT ONE), decimal digits of category Nd; "sup2" is
\* U+00B2 (SUPERSCRIPT TWO), of category No with the Digit property. "nines"
\* stands for a run of IntMaxStrDigits + 1 characters "9".
AsciiDigits == {"0", "1", "2", "3", "4", "5", "6", "7", "8", "9"}

\* The decimal digits (category Nd) of the alphabet: int() reads them all.
DecimalDigits == AsciiDigits \cup {"u0663", "uFF11", "nines"}

\* Characters with the Digit property that are no decimal digits.
OtherDigits == {"sup2"}

\* The most digits int() converts (Python 3.11 and later); more raise ValueError.
IntMaxStrDigits == 4300

\* The number of characters an element of a text stands for.
Width(c) == IF c = "nines" THEN IntMaxStrDigits + 1 ELSE 1

RECURSIVE DigitCount(_)
DigitCount(s) ==
    IF Len(s) = 0 THEN 0 ELSE DigitCount(SubSeq(s, 1, Len(s) - 1)) + Width(s[Len(s)])

DigitValue(c) ==
    CASE c = "0" -> 0 [] c = "1" -> 1 [] c = "2" -> 2 [] c = "3" -> 3
      [] c = "4" -> 4 [] c = "5" -> 5 [] c = "6" -> 6 [] c = "7" -> 7
      [] c = "8" -> 8 [] c = "9" -> 9 [] c = "u0663" -> 3 [] c = "uFF11" -> 1

DigitChar(d) ==
    CASE d = 0 -> "0" [] d = 1 -> "1" [] d = 2 -> "2" [] d = 3 -> "3"
      [] d = 4 -> "4" [] d = 5 -> "5" [] d = 6 -> "6" [] d = 7 -> "7"
      [] d = 8 -> "8" [] d = 9 -> "9"

\* str.isdigit(): the string is not empty and every character has the Digit
\* or Decimal property: the decimal digits of every script and the
\* superscript digits have it, signs and letters do not.
isdigit(s) ==
    Len(s) > 0 /\ \A i \in 1..Len(s) : s[i] \in DecimalDigits \cup OtherDigits

RECURSIVE DecimalValue(_)
DecimalValue(s) ==
    IF Len(s) = 0 THEN 0
    ELSE LET front == DecimalValue(SubSeq(s, 1, Len(s) - 1))
             c == s[Len(s)]
         IN  IF c = "nines" THEN (front + 1) * 10^Width(c) - 1
             ELSE 10 * front + DigitValue(c)

\* int(text): an optional sign and at least one decimal digit, of any script
\* and at most IntMaxStrDigits of them, give the value; anything else, a
\* superscript digit included, raises ValueError (err).
int(s) ==
    LET signed == Len(s) > 0 /\ s[1] \in {"+", "-"}
        body == IF signed THEN SubSeq(s, 2, Len(s)) ELSE s
    IN  IF /\ Len(body) > 0
           /\ \A i \in 1..Len(body) : body[i] \in DecimalDigits
           /\ DigitCount(body) <= IntMaxStrDigits
        THEN [err |-> FALSE,
              val |-> IF signed /\ s[1] = "-" THEN 0 - DecimalValue(body)
                      ELSE DecimalValue(body)]
        ELSE [err |-> TRUE, val |-> 0]

RECURSIVE str(_)
str(n) == IF n < 10 THEN <<DigitChar(n)>> ELSE Append(str(n \div 10), DigitChar(n % 10))

Max(S) == CHOOSE m \in S : \A x \in S : x <= m

\* next_id returning the maximum itself.
next_id_no_increment(id_str_lst) ==
    LET kept == {i \in 1..Len(id_str_lst) : isdigit(id_str_lst[i])}
        converted == {int(id_str_lst[i]) : i \in kept}
        used_ids == {c.val : c \in converted}
    IN  IF \E c \in converted : c.err THEN [status |-> "ValueError", num |-> 0]
        ELSE IF used_ids = {} THEN [status |-> "ok", num |-> 1]
        ELSE [status |-> "ok", num |-> Max(used_ids)]

\* next_id filling the gaps: the smallest positive integer not in use.
next_id_fill_gaps(id_str_lst) ==
    LET kept == {i \in 1..Len(id_str_lst) : isdigit(id_str_lst[i])}
        converted == {int(id_str_lst[i]) : i \in kept}
        used_ids == {c.val : c \in converted}
    IN  IF \E c \in converted : c.err THEN [status |-> "ValueError", num |-> 0]
        ELSE IF used_ids = {} THEN [status |-> "ok", num |-> 1]
        ELSE [status |-> "ok",
              num |-> CHOOSE n \in 1..(Max(used_ids) + 1) :
                        /\ n \notin used_ids
                        /\ \A m \in 1..(n - 1) : m \in used_ids]

\* next_id counting the ids in use instead of taking their maximum.
next_id_count_plus_one(id_str_lst) ==
    LET kept == {i \in 1..Len(id_str_lst) : isdigit(id_str_lst[i])}
        converted == {int(id_str_lst[i]) : i \in kept}
        used_ids == {c.val : c \in converted}
    IN  IF \E c \in converted : c.err THEN [status |-> "ValueError", num |-> 0]
        ELSE IF used_ids = {} THEN [status |-> "ok", num |-> 1]
        ELSE [status |-> "ok", num |-> Cardinality(kept) + 1]

\* FooterPart.next_id over the list the XPath query //@id returns: the
\* comprehension converts every string the filter accepts, and a failing
\* conversion ends the call with ValueError.
next_id(id_str_lst) ==
    LET kept == {i \in 1..Len(id_str_lst) : isdigit(id_str_lst[i])}
        converted == {int(id_str_lst[i]) : i \in kept}
        used_ids == {c.val : c \in converted}
    IN  IF \E c \in converted : c.err THEN [status |-> "ValueError", num |-> 0]
        ELSE IF used_ids = {} THEN [status |-> "ok", num |-> 1]
        ELSE [status |-> "ok", num |-> Max(used_ids) + 1]

\* ------------------------------------------------- relationships and parts

RT_STYLES == "styles"
RT_NUMBERING == "numbering"
RT_SETTINGS == "settings"
RT_IMAGE == "image"

SingletonTypes == {RT_STYLES, RT_NUMBERING, RT_SETTINGS}

\* The part class a relationship type leads to.
KindOf(reltype) ==
    CASE reltype = RT_STYLES -> "StylesPart"
      [] reltype = RT_NUMBERING -> "NumberingPart"
      [] reltype = RT_SETTINGS -> "SettingsPart"
      [] reltype = RT_IMAGE -> "ImagePart"

RelsOfType(rs, reltype) == {r \in rs : r.reltype = reltype}

\* Part.part_related_by(reltype): the target of the single relationship of
\* that type; KeyError when there is none, ValueError when there are several.
part_related_by(rs, reltype) ==
    LET found == RelsOfType(rs, reltype)
    IN  IF found = {} THEN [status |-> "KeyError", part |-> 0]
        ELSE IF Cardinality(found) > 1 THEN [status |-> "ValueError", part |-> 0]
        ELSE [status |-> "ok", part |-> (CHOOSE r \in found : TRUE).target]

\* Part.relate_to(target, reltype): the relationship is added unless this very
\* edge exists already.
relate_to(rs, target, reltype) == rs \cup {[reltype |-> reltype, target |-> target]}

\* The factories of the dependent parts: each builds a new part instance.
NumberingPart_new(ps) == Append(ps, [kind |-> "NumberingPart", origin |-> "default"])

SettingsPart_default(ps) == Append(ps, [kind |-> "SettingsPart", origin |-> "default"])

StylesPart_default(ps) == Append(ps, [kind |-> "StylesPart", origin |-> "default"])

\* What an accessor hands back: the part (0 when it raised), the relationships
\* and parts it leaves behind, and how often it looked up and created.
Outcome(status, part, rs, ps, lookups, created) ==
    [status |-> status, part |-> part, rels |-> rs, parts |-> ps,
     lookups |-> lookups, created |-> created]

\* numbering_part without the except clause: the KeyError of the lookup
\* reaches the caller.
numbering_part_uncaught(rs, ps) ==
    LET found == part_related_by(rs, RT_NUMBERING)
    IN  IF found.status = "ok" THEN Outcome("ok", found.part, rs, ps, 1, 0)
        ELSE Outcome(found.status, 0, rs, ps, 1, 0)

\* The body of FooterPart.numbering_part.
numbering_part(rs, ps) ==
    LET found == part_related_by(rs, RT_NUMBERING)
        created == NumberingPart_new(ps)
    IN  IF found.status = "ok" THEN Outcome("ok", found.part, rs, ps, 1, 0)
        ELSE IF found.status = "KeyError"
        THEN Outcome("ok", Len(created),
                     relate_to(rs, Len(created), RT_NUMBERING), created, 1, 1)
        ELSE Outcome(found.status, 0, rs, ps, 1, 0)

\* _settings_part creating a default whatever the lookup found.
_settings_part_always_new(rs, ps) ==
    LET created == SettingsPart_default(ps)
    IN  Outcome("ok", Len(created),
                relate_to(rs, Len(created), RT_SETTINGS), created, 1, 1)

\* _settings_part relating the new settings part under the styles type.
_settings_part_wrong_type(rs, ps) ==
    LET found == part_related_by(rs, RT_SETTINGS)
        created == SettingsPart_default(ps)
    IN  IF found.status = "ok" THEN Outcome("ok", found.part, rs, ps, 1, 0)
        ELSE IF found.status = "KeyError"
        THEN Outcome("ok", Len(created),
                     relate_to(rs, Len(created), RT_STYLES), created, 1, 1)
        ELSE Outcome(found.status, 0, rs, ps, 1, 0)

\* FooterPart._settings_part.
_settings_part(rs, ps) ==
    LET found == part_related_by(rs, RT_SETTINGS)
        created == SettingsPart_default(ps)
    IN  IF found.status = "ok" THEN Outcome("ok", found.part, rs, ps, 1, 0)
        ELSE IF found.status = "KeyError"
        THEN Outcome("ok", Len(created),
                     relate_to(rs, Len(created), RT_SETTINGS), created, 1, 1)
        ELSE Outcome(found.status, 0, rs, ps, 1, 0)

\* _styles_part returning the default it created without relating it.
_styles_part_unrelated(rs, ps) ==
    LET found == part_related_by(rs, RT_STYLES)
        created == StylesPart_default(ps)
    IN  IF found.status = "ok" THEN Outcome("ok", found.part, rs, ps, 1, 0)
        ELSE IF found.status = "KeyError"
        THEN Outcome("ok", Len(created), rs, created, 1, 1)
        ELSE Outcome(found.status, 0, rs, ps, 1, 0)

\* _styles_part without the except clause: the KeyError of the lookup reaches
\* the caller.
_styles_part_uncaught(rs, ps) ==
    LET found == part_related_by(rs, RT_STYLES)
    IN  IF found.status = "ok" THEN Outcome("ok", found.part, rs, ps, 1, 0)
        ELSE Outcome(found.status, 0, rs, ps, 1, 0)

\* _styles_part replacing the relationship it found by one to a new default.
_styles_part_retarget(rs, ps) ==
    LET found == part_related_by(rs, RT_STYLES)
        created == StylesPart_default(ps)
    IN  IF found.status = "ValueError" THEN Outcome(found.status, 0, rs, ps, 1, 0)
        ELSE Outcome("ok", Len(created),
                     relate_to(rs \ RelsOfType(rs, RT_STYLES), Len(created), RT_STYLES),
                     created, 1, 1)

\* FooterPart._styles_part.
_styles_part(rs, ps) ==
    LET found == part_related_by(rs, RT_STYLES)
        created == StylesPart_default(ps)
    IN  IF found.status = "ok" THEN Outcome("ok", found.part, rs, ps, 1, 0)
        ELSE IF found.status = "KeyError"
        THEN Outcome("ok", Len(created),
                     relate_to(rs, Len(created), RT_STYLES), created, 1, 1)
        ELSE Outcome(found.status, 0, rs, ps, 1, 0)

\* ------------------------------------------------------------------ styles

None == "<None>"

StyleTypes == {"paragraph", "character"}

Style(style_id, name, type, default) ==
    [style_id |-> style_id, name |-> name, type |-> type, default |-> default]

\* The styles of the default styles part, and those of a loaded one.
DefaultStyles ==
    {Style("Normal", "Normal", "paragraph", TRUE),
     Style("Heading1", "Heading 1", "paragraph", FALSE),
     Style("DefaultParagraphFont", "Default Paragraph Font", "character", TRUE)}

LoadedStyles ==
    {Style("Normal", "Normal", "paragraph", TRUE),
     Style("Quote", "Quote", "paragraph", FALSE),
     Style("DefaultParagraphFont", "Default Paragraph Font", "character", TRUE),
     Style("Emphasis", "Emphasis", "character", FALSE)}

\* StylesPart.styles: the styles the part holds.
StylesIn(part) == IF part.origin = "default" THEN DefaultStyles ELSE LoadedStyles

StyleDefault(styles, style_type) ==
    CHOOSE st \in styles : st.type = style_type /\ st.default

\* Styles.get_by_id: the style with that id and type, else the default style
\* of the type.
get_by_id(styles, style_id, style_type) ==
    LET match == {st \in styles : st.style_id = style_id /\ st.type = style_type}
    IN  IF style_id = None \/ match = {} THEN StyleDefault(styles, style_type)
        ELSE CHOOSE st \in match : TRUE

\* Styles.get_style_id: None for None and for the default style, the id of
\* the named style otherwise; a name of another type or of no style raises.
get_style_id(styles, style_or_name, style_type) ==
    LET named == {st \in styles : st.name = style_or_name}
        st == CHOOSE x \in named : TRUE
    IN  IF style_or_name = None THEN [status |-> "ok", style |-> None]
        ELSE IF named = {} THEN [status |-> "StyleNotFound", style |-> None]
        ELSE IF st.type # style_type THEN [status |-> "WrongStyleType", style |-> None]
        ELSE IF st = StyleDefault(styles, style_type) THEN [status |-> "ok", style |-> None]
        ELSE [status |-> "ok", style |-> st.style_id]

StyleIdArgs == {None, "Normal", "Heading1", "Emphasis", "bogus-id"}
StyleNameArgs == {None, "Normal", "Heading 1", "Emphasis", "NoSuchStyle"}

\* -------------------------------------------------------------- operations

Ret(op, status, part, num, style, lookups, created, again) ==
    [op |-> op, status |-> status, part |-> part, num |-> num, style |-> style,
     lookups |-> lookups, created |-> created, again |-> again]

IdVars == <<subtree, last_id, dirty, issued>>

\* What an access of a dependent part of type reltype leaves behind; o is the
\* accessor's outcome.
ResolvedAs(reltype, o, r) ==
    /\ rels' = o.rels
    /\ parts' = o.parts
    /\ first_result' =
         IF o.status = "ok" /\ first_result[reltype] = 0
         THEN [first_result EXCEPT ![reltype] = o.part]
         ELSE first_result
    /\ ret' = r
    /\ UNCHANGED IdVars
    /\ UNCHANGED <<sibling, threads>>

Resolved(op, reltype, o, style, status) ==
    ResolvedAs(reltype, o,
               Ret(op, status, o.part, 0, style, o.lookups, o.created,
                   first_result[reltype] # 0))

\* The outcome of a style call, with the arguments of the call.
StyleRet(op, reltype, o, style, status, arg, style_type) ==
    Ret(op, status, o.part, 0, style, o.lookups, o.created, first_result[reltype] # 0)
      @@ [arg |-> arg, type |-> style_type]

\* numbering_part as a plain property: the body runs on every access.
Get_numbering_part_uncached ==
    LET o == numbering_part(rels, parts)
    IN  /\ numbering_cache' = o.part
        /\ Resolved("numbering_part", RT_NUMBERING, o, None, o.status)

\* numbering_part is a lazyproperty: the body runs on the first access and its
\* result is kept in the instance; later accesses read the kept value.
Get_numbering_part ==
    IF numbering_cache # 0
    THEN /\ ret' = Ret("numbering_part", "ok", numbering_cache, 0, None, 0, 0, TRUE)
         /\ UNCHANGED <<rels, parts, numbering_cache, first_result>>
         /\ UNCHANGED IdVars
         /\ UNCHANGED <<sibling, threads>>
    ELSE LET o == numbering_part(rels, parts)
         IN  /\ numbering_cache' = o.part
             /\ Resolved("numbering_part", RT_NUMBERING, o, None, o.status)

Get_settings_part ==
    /\ Resolved("_settings_part", RT_SETTINGS, _settings_part(rels, parts), None,
                _settings_part(rels, parts).status)
    /\ UNCHANGED numbering_cache

Get_styles_part ==
    /\ Resolved("_styles_part", RT_STYLES, _styles_part(rels, parts), None,
                _styles_part(rels, parts).status)
    /\ UNCHANGED numbering_cache

\* FooterPart.settings: the settings of the settings part.
Get_settings ==
    /\ Resolved("settings", RT_SETTINGS, _settings_part(rels, parts), None,
                _settings_part(rels, parts).status)
    /\ UNCHANGED numbering_cache

\* FooterPart.styles: the styles of the styles part.
Get_styles ==
    /\ Resolved("styles", RT_STYLES, _styles_part(rels, parts), None,
                _styles_part(rels, parts).status)
    /\ UNCHANGED numbering_cache

\* FooterPart.get_style(style_id, style_type).
Call_get_style ==
    \E style_id \in StyleIdArgs, style_type \in StyleTypes :
        LET o == _styles_part(rels, parts)
        IN  /\ IF o.status = "ok"
               THEN ResolvedAs(RT_STYLES, o,
                      StyleRet("get_style", RT_STYLES, o,
                               get_by_id(StylesIn(o.parts[o.part]), style_id,
                                         style_type).style_id,
                               "ok", style_id, style_type))
               ELSE ResolvedAs(RT_STYLES, o,
                      StyleRet("get_style", RT_STYLES, o, None, o.status,
                               style_id, style_type))
            /\ UNCHANGED numbering_cache

\* get_style_id answering None where the lookup raised.
Call_get_style_id_swallow ==
    \E style_or_name \in StyleNameArgs, style_type \in StyleTypes :
        LET o == _styles_part(rels, parts)
            got == get_style_id(StylesIn(o.parts[o.part]), style_or_name, style_type)
        IN  /\ IF o.status = "ok"
               THEN ResolvedAs(RT_STYLES, o,
                      StyleRet("get_style_id", RT_STYLES, o, got.style, "ok",
                               style_or_name, style_type))
               ELSE ResolvedAs(RT_STYLES, o,
                      StyleRet("get_style_id", RT_STYLES, o, None, o.status,
                               style_or_name, style_type))
            /\ UNCHANGED numbering_cache

\* FooterPart.get_style_id(style_or_name, style_type).
Call_get_style_id ==
    \E style_or_name \in StyleNameArgs, style_type \in StyleTypes :
        LET o == _styles_part(rels, parts)
            got == get_style_id(StylesIn(o.parts[o.part]), style_or_name, style_type)
        IN  /\ IF o.status = "ok"
               THEN ResolvedAs(RT_STYLES, o,
                      StyleRet("get_style_id", RT_STYLES, o, got.style, got.status,
                               style_or_name, style_type))
               ELSE ResolvedAs(RT_STYLES, o,
                      StyleRet("get_style_id", RT_STYLES, o, None, o.status,
                               style_or_name, style_type))
            /\ UNCHANGED numbering_cache

\* next_id reserving what it returns by recording the value in the subtree.
Get_next_id_reserving ==
    LET got == next_id(subtree)
    IN  /\ ret' = Ret("next_id", got.status, 0, got.num, None, 0, 0, FALSE)
        /\ last_id' = IF got.status = "ok" THEN got.num ELSE last_id
        /\ dirty' = IF got.status = "ok" THEN FALSE ELSE dirty
        /\ subtree' = IF got.status = "ok" /\ Len(subtree) < MaxElems
                      THEN Append(subtree, str(got.num)) ELSE subtree
        /\ UNCHANGED <<sibling, threads>>
        /\ UNCHANGED <<rels, parts, numbering_cache, first_result, issued>>

\* FooterPart.next_id: reads the subtree and computes; last_id and dirty record
\* what the caller saw.
Get_next_id ==
    LET got == next_id(subtree)
    IN  /\ ret' = Ret("next_id", got.status, 0, got.num, None, 0, 0, FALSE)
        /\ last_id' = IF got.status = "ok" THEN got.num ELSE last_id
        /\ dirty' = IF got.status = "ok" THEN FALSE ELSE dirty
        /\ UNCHANGED <<sibling, threads>>
        /\ UNCHANGED <<rels, parts, numbering_cache, first_result, subtree, issued>>

\* ------------------------------------------------- the callers' id traffic

\* The id attribute texts documents and callers bring: empty, plain numbers,
\* a letter, a signed number, digits mixed with a letter, a superscript digit,
\* a number in Arabic-Indic digits, and a number of more digits than int()
\* converts.
IdTexts ==
    {<<>>, <<"1">>, <<"3">>, <<"7">>, <<"x">>, <<"+", "9">>, <<"1", "x">>, <<"sup2">>,
     <<"u0663">>, <<"nines">>}

\* A caller reads next_id and adds an element bearing that id.
InsertElement ==
    LET got == next_id(subtree)
    IN  /\ got.status = "ok"
        /\ got.num <= MaxId
        /\ Len(subtree) < MaxElems
        /\ subtree' = Append(subtree, str(got.num))
        /\ issued' = issued \cup {got.num}
        /\ ret' = Ret("insert", "ok", 0, got.num, None, 0, 0, FALSE)
        /\ last_id' = got.num
        /\ dirty' = TRUE
        /\ UNCHANGED <<sibling, threads>>
        /\ UNCHANGED <<rels, parts, numbering_cache, first_result>>

\* A caller adds an element whose id text it chose itself.
WriteElement ==
    \E text \in IdTexts :
        /\ Len(subtree) < MaxElems
        /\ subtree' = Append(subtree, text)
        /\ ret' = Ret("write", "ok", 0, 0, None, 0, 0, FALSE)
        /\ dirty' = TRUE
        /\ UNCHANGED <<sibling, threads>>
        /\ UNCHANGED <<rels, parts, numbering_cache, first_result, last_id, issued>>

\* A caller removes an element that bears an id.
RemoveElement ==
    \E i \in 1..Len(subtree) :
        /\ subtree' = SubSeq(subtree, 1, i - 1) \o SubSeq(subtree, i + 1, Len(subtree))
        /\ ret' = Ret("remove", "ok", 0, 0, None, 0, 0, FALSE)
        /\ dirty' = TRUE
        /\ UNCHANGED <<sibling, threads>>
        /\ UNCHANGED <<rels, parts, numbering_cache, first_result, last_id, issued>>

\* ------------------------------------------------------- the sibling part

ThisPartVars ==
    <<rels, parts, numbering_cache, first_result, subtree, ret, last_id, dirty,
      issued, threads>>

\* next_id of the sibling part, read from its own subtree.
Sibling_next_id ==
    LET got == next_id(sibling.subtree)
    IN  /\ sibling' = [sibling EXCEPT !.status = got.status, !.num = got.num]
        /\ UNCHANGED ThisPartVars

\* A caller adds an element with an id text of its choice to the sibling part.
SiblingWrite ==
    \E text \in IdTexts :
        /\ Len(sibling.subtree) < MaxSiblingElems
        /\ sibling' = [subtree |-> Append(sibling.subtree, text),
                       status |-> "none", num |-> 0]
        /\ UNCHANGED ThisPartVars

\* A caller reads next_id of the sibling part and adds an element bearing it.
SiblingInsert ==
    LET got == next_id(sibling.subtree)
    IN  /\ got.status = "ok"
        /\ got.num <= MaxId
        /\ Len(sibling.subtree) < MaxSiblingElems
        /\ sibling' = [subtree |-> Append(sibling.subtree, str(got.num)),
                       status |-> "none", num |-> 0]
        /\ UNCHANGED ThisPartVars

\* ------------------------------------------- threads inside an accessor

\* Each thread calls the accessor of threads.reltype once. The accessor is not
\* atomic: the cache test of the lazyproperty, the lookup, the creation of the
\* default, relate_to and the return are steps of their own, and nothing in the
\* accessor keeps another thread out between them. Under the discipline
\* "single_writer" the callers let one thread at a time work on the package.
Threads == 1..NumThreads

IdleThread == [pc |-> "idle", new |-> 0, result |-> 0, status |-> "none", missed |-> FALSE]

Inside(t) == threads.th[t].pc \notin {"idle", "done"}

MayRun(t) ==
    threads.mode = "single_writer" => \A u \in Threads \ {t} : ~Inside(u)

SetThread(t, rec) == [threads EXCEPT !.th[t] = rec]

ThreadFrame == UNCHANGED <<first_result, subtree, ret, last_id, dirty, issued, sibling>>

\* The factory the accessor of a relationship type calls.
NewDefault(reltype, ps) ==
    CASE reltype = RT_STYLES -> StylesPart_default(ps)
      [] reltype = RT_NUMBERING -> NumberingPart_new(ps)
      [] reltype = RT_SETTINGS -> SettingsPart_default(ps)

\* The thread enters the accessor; numbering_part, a lazyproperty, returns the
\* kept part when there is one.
T_begin(t) ==
    /\ threads.th[t].pc = "idle"
    /\ MayRun(t)
    /\ threads' =
         IF threads.reltype = RT_NUMBERING /\ numbering_cache # 0
         THEN SetThread(t, [IdleThread EXCEPT !.pc = "done", !.status = "ok",
                                             !.result = numbering_cache])
         ELSE SetThread(t, [IdleThread EXCEPT !.pc = "lookup"])
    /\ UNCHANGED <<rels, parts, numbering_cache>>
    /\ ThreadFrame

\* try: return self.part_related_by(reltype)
T_lookup(t) ==
    LET found == part_related_by(rels, threads.reltype)
        me == threads.th[t]
    IN  /\ me.pc = "lookup"
        /\ MayRun(t)
        /\ threads' =
             IF found.status = "ok"
             THEN SetThread(t, [me EXCEPT !.pc = "return", !.status = "ok",
                                          !.result = found.part])
             ELSE IF found.status = "KeyError"
             THEN SetThread(t, [me EXCEPT !.pc = "create", !.missed = TRUE])
             ELSE SetThread(t, [me EXCEPT !.pc = "done", !.status = found.status])
        /\ UNCHANGED <<rels, parts, numbering_cache>>
        /\ ThreadFrame

\* except KeyError: the default part is built.
T_create(t) ==
    LET me == threads.th[t]
        created == NewDefault(threads.reltype, parts)
    IN  /\ me.pc = "create"
        /\ MayRun(t)
        /\ parts' = created
        /\ threads' = SetThread(t, [me EXCEPT !.pc = "relate", !.new = Len(created)])
        /\ UNCHANGED <<rels, numbering_cache>>
        /\ ThreadFrame

\* The thread forgets relate_to: the default part stays unrelated.
T_relate_skipped(t) ==
    LET me == threads.th[t]
    IN  /\ me.pc = "relate"
        /\ MayRun(t)
        /\ threads' = SetThread(t, [me EXCEPT !.pc = "return", !.status = "ok",
                                             !.result = me.new])
        /\ UNCHANGED <<rels, parts, numbering_cache>>
        /\ ThreadFrame

\* self.relate_to(new_part, reltype), and the new part is what is returned.
T_relate(t) ==
    LET me == threads.th[t]
    IN  /\ me.pc = "relate"
        /\ MayRun(t)
        /\ rels' = relate_to(rels, me.new, threads.reltype)
        /\ threads' = SetThread(t, [me EXCEPT !.pc = "return", !.status = "ok",
                                             !.result = me.new])
        /\ UNCHANGED <<parts, numbering_cache>>
        /\ ThreadFrame

\* The accessor returns; the lazyproperty keeps what numbering_part returned.
T_return(t) ==
    LET me == threads.th[t]
    IN  /\ me.pc = "return"
        /\ MayRun(t)
        /\ numbering_cache' =
             IF threads.reltype = RT_NUMBERING THEN me.result ELSE numbering_cache
        /\ threads' = SetThread(t, [me EXCEPT !.pc = "done"])
        /\ UNCHANGED <<rels, parts>>
        /\ ThreadFrame

\* ---------------------------------------------------------- specifications

NoRet == Ret("none", "ok", 0, 0, None, 0, 0, FALSE)

SingletonOrder == <<RT_STYLES, RT_NUMBERING, RT_SETTINGS>>

\* The relationship types of a loaded part: those of loaded among the
\* singleton types, then images image relationships.
LoadedTypes(loaded, images) ==
    SelectSeq(SingletonOrder, LAMBDA t : t \in loaded) \o [i \in 1..images |-> RT_IMAGE]

LoadedSubtrees == {<<>>, <<<<"3">>, <<"7">>, <<"x">>>>, <<<<"1", "x">>, <<"+", "9">>>>}

NoSibling == [subtree |-> <<>>, status |-> "none", num |-> 0]

NoThreads == [mode |-> "none", reltype |-> RT_STYLES, th |-> <<>>]

InitIdVars ==
    /\ last_id = 0
    /\ dirty = FALSE
    /\ issued = {}
    /\ sibling = NoSibling
    /\ threads = NoThreads

\* A part as loaded from a package: at most one relationship of each singleton
\* type, each to a part of the matching class, and nothing accessed yet.
Init ==
    /\ \E loaded \in SUBSET SingletonTypes, images \in 0..MaxImages :
         LET types == LoadedTypes(loaded, images)
         IN  /\ parts = [i \in 1..Len(types) |->
                           [kind |-> KindOf(types[i]), origin |-> "loaded"]]
             /\ rels = {[reltype |-> types[i], target |-> i] : i \in 1..Len(types)}
    /\ numbering_cache = 0
    /\ first_result = [t \in SingletonTypes |-> 0]
    /\ subtree \in LoadedSubtrees
    /\ ret = NoRet
    /\ InitIdVars

Next ==
    \/ Get_numbering_part
    \/ Get_settings_part
    \/ Get_styles_part
    \/ Get_settings
    \/ Get_styles
    \/ Call_get_style
    \/ Call_get_style_id
    \/ Get_next_id

Spec == Init /\ [][Next]_vars

\* A part with any subtree of at most MaxElems id attributes, and callers
\* that read next_id, add and remove elements.
InitIds ==
    /\ parts = <<>>
    /\ rels = {}
    /\ numbering_cache = 0
    /\ first_result = [t \in SingletonTypes |-> 0]
    /\ subtree \in UNION {[1..n -> IdTexts] : n \in 0..MaxElems}
    /\ ret = NoRet
    /\ InitIdVars

NextIds ==
    \/ Get_next_id
    \/ WriteElement
    \/ RemoveElement

SpecIds == InitIds /\ [][NextIds]_vars

\* A loaded part whose callers allocate every id they add with next_id.
InitAlloc ==
    /\ parts = <<>>
    /\ rels = {}
    /\ numbering_cache = 0
    /\ first_result = [t \in SingletonTypes |-> 0]
    /\ subtree \in LoadedSubtrees
    /\ ret = NoRet
    /\ InitIdVars

NextAlloc ==
    \/ Get_next_id
    \/ InsertElement
    \/ RemoveElement

SpecAlloc == InitAlloc /\ [][NextAlloc]_vars

\* The ids of the elements are pairwise distinct.
Distinct(ids) == \A i, j \in 1..Len(ids) : i # j => ids[i] # ids[j]

\* A part whose ids are pairwise distinct, and callers that only add elements,
\* each with the id next_id gives.
InitGrow ==
    /\ parts = <<>>
    /\ rels = {}
    /\ numbering_cache = 0
    /\ first_result = [t \in SingletonTypes |-> 0]
    /\ subtree \in {t \in UNION {[1..n -> IdTexts] : n \in 0..MaxElems} : Distinct(t)}
    /\ ret = NoRet
    /\ InitIdVars

NextGrow ==
    \/ Get_next_id
    \/ InsertElement

SpecGrow == InitGrow /\ [][NextGrow]_vars

\* A loaded part and NumThreads threads that each access the same accessor,
\* with or without the callers' single-writer discipline.
InitThreads ==
    /\ \E loaded \in SUBSET SingletonTypes, images \in 0..MaxImages :
         LET types == LoadedTypes(loaded, images)
         IN  /\ parts = [i \in 1..Len(types) |->
                           [kind |-> KindOf(types[i]), origin |-> "loaded"]]
             /\ rels = {[reltype |-> types[i], target |-> i] : i \in 1..Len(types)}
    /\ numbering_cache = 0
    /\ first_result = [t \in SingletonTypes |-> 0]
    /\ subtree = <<>>
    /\ ret = NoRet
    /\ last_id = 0
    /\ dirty = FALSE
    /\ issued = {}
    /\ sibling = NoSibling
    /\ \E mode \in {"none", "single_writer"}, reltype \in SingletonTypes :
         threads = [mode |-> mode, reltype |-> reltype,
                    th |-> [t \in Threads |-> IdleThread]]

NextThreads ==
    \E t \in Threads :
        \/ T_begin(t)
        \/ T_lookup(t)
        \/ T_create(t)
        \/ T_relate(t)
        \/ T_return(t)

SpecThreads == InitThreads /\ [][NextThreads]_vars

\* Two FooterParts of one package, each with its own subtree.
InitTwo ==
    /\ parts = <<>>
    /\ rels = {}
    /\ numbering_cache = 0
    /\ first_result = [t \in SingletonTypes |-> 0]
    /\ subtree \in LoadedSubtrees
    /\ ret = NoRet
    /\ last_id = 0
    /\ dirty = FALSE
    /\ issued = {}
    /\ sibling \in {[NoSibling EXCEPT !.subtree = t] : t \in {<<>>, <<<<"7">>>>}}
    /\ threads = NoThreads

NextTwo ==
    \/ Get_next_id
    \/ InsertElement
    \/ Sibling_next_id
    \/ SiblingWrite
    \/ SiblingInsert

SpecTwo == InitTwo /\ [][NextTwo]_vars

\* -------------------------------------------------------------- properties

\* The accessors of the dependent parts and the relationship type of each.
Accessors ==
    {[op |-> "_styles_part", reltype |-> RT_STYLES],
     [op |-> "numbering_part", reltype |-> RT_NUMBERING],
     [op |-> "_settings_part", reltype |-> RT_SETTINGS]}

\* Every operation that resolves a dependent part, with its relationship type.
Resolvers ==
    Accessors \cup
    {[op |-> "styles", reltype |-> RT_STYLES],
     [op |-> "get_style", reltype |-> RT_STYLES],
     [op |-> "get_style_id", reltype |-> RT_STYLES],
     [op |-> "settings", reltype |-> RT_SETTINGS]}

\* C1: when an accessor (_styles_part, numbering_part, _settings_part) has
\* just created the default part because no relationship of its type existed,
\* there is exactly one relationship of that type, and calling the same
\* accessor again returns the same part, creates nothing and leaves exactly
\* one relationship of the type.
C1_TwiceSamePart ==
    [][\A a \in Accessors :
         (ret.op = a.op /\ ret.created = 1 /\ ret'.op = a.op)
         => /\ Cardinality(RelsOfType(rels, a.reltype)) = 1
            /\ ret'.status = "ok"
            /\ ret'.part = ret.part
            /\ ret'.created = 0
            /\ Cardinality(RelsOfType(rels', a.reltype)) = 1
            /\ Len(parts') = Len(parts)]_vars

\* All three dependent parts were created as defaults and the last call was a
\* repeated access.
C1_Witness ==
    /\ \A t \in SingletonTypes :
         first_result[t] # 0 /\ parts[first_result[t]].origin = "default"
    /\ ret.op \in {a.op : a \in Accessors}
    /\ ret.again
    /\ ret.part = first_result[(CHOOSE a \in Accessors : a.op = ret.op).reltype]

\* C2: the part has at most one relationship of each of the types STYLES,
\* NUMBERING and SETTINGS in every reachable state.
C2_AtMostOnePerType ==
    \A t \in SingletonTypes : Cardinality(RelsOfType(rels, t)) <= 1

\* Every dependent part was resolved, two of them loaded and one created, and
\* calls went on after that.
C2_Witness ==
    /\ \A t \in SingletonTypes :
         first_result[t] # 0 /\ Cardinality(RelsOfType(rels, t)) = 1
    /\ parts[first_result[RT_SETTINGS]].origin = "default"
    /\ parts[first_result[RT_STYLES]].origin = "loaded"
    /\ ret.op = "get_style_id"
    /\ ret.again

\* C3: an access of a dependent part never raises and yields a part of the
\* class of its relationship type, also when it found no relationship.
C3_NeverRaises ==
    \A a \in Resolvers \ {[op |-> "get_style_id", reltype |-> RT_STYLES]} :
        ret.op = a.op
        => /\ ret.status = "ok"
           /\ ret.part \in 1..Len(parts)
           /\ parts[ret.part].kind = KindOf(a.reltype)

\* The lookup found nothing and the accessor returned the default it created.
C3_Witness ==
    /\ ret.op = "numbering_part"
    /\ ret.created = 1
    /\ ret.status = "ok"
    /\ RelsOfType(rels, RT_STYLES) = {}
    /\ RelsOfType(rels, RT_SETTINGS) = {}

\* C6 as claimed: after the first access of a dependent part, a later access
\* looks up no relationship and creates nothing, for styles, numbering and
\* settings alike.
C6_ComputedOnce ==
    \A a \in Resolvers :
        (ret.op = a.op /\ ret.again) => (ret.lookups = 0 /\ ret.created = 0)

\* C6 as amended: after the first access, numbering_part returns the kept part
\* without any lookup; _styles_part and _settings_part (and the operations
\* built on them) look the relationship up once more on every access, create
\* nothing and return the part the first access returned.
C6_ComputedOnceAmended ==
    \A a \in Resolvers :
        (ret.op = a.op /\ ret.again)
        => /\ ret.created = 0
           /\ ret.part = first_result[a.reltype]
           /\ ret.lookups = IF a.op = "numbering_part" THEN 0 ELSE 1

\* A repeated access of the numbering part that was created by the first one.
C6_Witness ==
    /\ ret.op = "numbering_part"
    /\ ret.again
    /\ ret.lookups = 0
    /\ numbering_cache = ret.part
    /\ parts[ret.part].origin = "default"

\* C10: an access that finds no relationship of its type adds exactly one
\* relationship, of that type and to the default part it creates, of the
\* matching class; an access that finds one returns its target and leaves
\* relationships and parts as they were.
C10_ResolveFrame ==
    [][\A a \in Resolvers :
         ret'.op = a.op
         => IF RelsOfType(rels, a.reltype) = {}
            THEN /\ Len(parts') = Len(parts) + 1
                 /\ SubSeq(parts', 1, Len(parts)) = parts
                 /\ parts'[Len(parts')] =
                      [kind |-> KindOf(a.reltype), origin |-> "default"]
                 /\ rels' = rels \cup {[reltype |-> a.reltype, target |-> Len(parts')]}
                 /\ Cardinality(rels') = Cardinality(rels) + 1
                 /\ ret'.part = Len(parts')
                 /\ ret'.created = 1
            ELSE /\ rels' = rels
                 /\ parts' = parts
                 /\ ret'.created = 0
                 /\ ret'.part = (CHOOSE r \in RelsOfType(rels, a.reltype) : TRUE).target]_vars

\* The settings part was created next to loaded relationships of other types.
C10_Witness ==
    /\ ret.op = "settings"
    /\ ret.created = 1
    /\ RelsOfType(rels, RT_IMAGE) # {}
    /\ RelsOfType(rels, RT_STYLES) # {}
    /\ parts[ret.part] = [kind |-> "SettingsPart", origin |-> "default"]

\* The reference of C4: among all id texts keep the non-negative integers
\* (strings of decimal digits); 1 if none is left, else the maximum plus 1.
IsPlainNumber(text) == Len(text) > 0 /\ \A i \in 1..Len(text) : text[i] \in DecimalDigits

\* The number is short enough for its value to be compared with an id issued.
Fits(text) == DigitCount(text) <= IntMaxStrDigits

AllFit(ids) == \A i \in 1..Len(ids) : Fits(ids[i])

ReferenceNextId(ids) ==
    LET nums == {DecimalValue(ids[i]) : i \in {j \in 1..Len(ids) : IsPlainNumber(ids[j])}}
    IN  IF nums = {} THEN 1 ELSE Max(nums) + 1

\* C4: next_id returns what the reference function gives for the id texts of
\* the subtree.
C4_EqualsReference ==
    ret.op = "next_id" => (ret.status = "ok" /\ ret.num = ReferenceNextId(subtree))

\* C5: a value next_id returns is a positive integer, is the text of no id in
\* the subtree and is the number of no numeric id in the subtree.
C5_NoCollision ==
    (ret.op = "next_id" /\ ret.status = "ok")
    => /\ ret.num >= 1
       /\ \A i \in 1..Len(subtree) :
            /\ subtree[i] # str(ret.num)
            /\ (IsPlainNumber(subtree[i]) => DecimalValue(subtree[i]) # ret.num)

\* next_id returned 8 for the ids 3, 7, "x", 1.
C5_Witness ==
    /\ ret.op = "next_id"
    /\ ret.status = "ok"
    /\ ret.num = 8
    /\ subtree = <<<<"3">>, <<"7">>, <<"x">>, <<"1">>>>

\* C7: a next_id read leaves the subtree, the relationships, the parts, the
\* cache and the record of issued values as they were; with no write or
\* removal since the last read it returns the same value again; and a larger
\* value than the last one comes only after a write, with an element in the
\* subtree whose numeric id is at least the last value.
C7_NoSideEffects ==
    [][ret'.op = "next_id"
       => /\ subtree' = subtree
          /\ rels' = rels
          /\ parts' = parts
          /\ numbering_cache' = numbering_cache
          /\ first_result' = first_result
          /\ issued' = issued
          /\ (ret'.status = "ok" /\ last_id # 0 /\ ~dirty) => ret'.num = last_id
          /\ (ret'.status = "ok" /\ last_id # 0 /\ ret'.num > last_id)
             => /\ dirty
                /\ \E i \in 1..Len(subtree) :
                     IsPlainNumber(subtree[i]) /\ DecimalValue(subtree[i]) >= last_id]_vars

\* A read that returned 8 after the caller had written ids into a subtree
\* that was read before.
C7_Witness ==
    /\ ret.op = "next_id"
    /\ ret.status = "ok"
    /\ ret.num = 8
    /\ last_id = 8
    /\ ~dirty
    /\ Len(subtree) = 2
    /\ subtree[2] = <<"7">>
    /\ subtree[1] = <<"+", "9">>

\* C8 as claimed: next_id never returns a value it returned before and that
\* was written into the subtree.
C8_NeverReuse ==
    [][(ret'.op \in {"next_id", "insert"} /\ ret'.status = "ok")
       => ret'.num \notin issued]_vars

\* C8 as amended: next_id returns a value it returned before and that was
\* written only when no element of the subtree bears that value or a larger
\* numeric id any more.
C8_NeverReuseAmended ==
    [][(ret'.op \in {"next_id", "insert"} /\ ret'.status = "ok" /\ ret'.num \in issued)
       => \A i \in 1..Len(subtree) :
            IsPlainNumber(subtree[i]) => DecimalValue(subtree[i]) < ret'.num]_vars

\* A value was issued and its element removed, and next_id, read while a
\* larger id is present, returned another value.
C8_Witness ==
    /\ ret.op = "next_id"
    /\ ret.status = "ok"
    /\ \E v \in issued :
         /\ \A i \in 1..Len(subtree) : subtree[i] # str(v)
         /\ \E i \in 1..Len(subtree) :
              IsPlainNumber(subtree[i]) /\ DecimalValue(subtree[i]) > v
         /\ ret.num > v

\* C9: next_id returns an integer for every list of id texts.
C9_NeverFails == ret.op = "next_id" => ret.status = "ok"

\* C11: get_style never fails and returns a style of style_type from the
\* styles part: the style with that id and type when one is defined, else the
\* default style of the type; when the call created the styles part, that part
\* is a default one and is related to this part.
C11_GetStyle ==
    ret.op = "get_style"
    => /\ ret.status = "ok"
       /\ ret.part \in 1..Len(parts)
       /\ parts[ret.part].kind = "StylesPart"
       /\ LET styles == StylesIn(parts[ret.part])
              match == {st \in styles : st.style_id = ret.arg /\ st.type = ret.type}
          IN  /\ \E st \in styles : st.style_id = ret.style /\ st.type = ret.type
              /\ (ret.arg # None /\ match # {}) => ret.style = ret.arg
              /\ (ret.arg = None \/ match = {})
                 => \E st \in styles :
                      st.default /\ st.type = ret.type /\ st.style_id = ret.style
       /\ ret.created = 1
          => /\ parts[ret.part].origin = "default"
             /\ [reltype |-> RT_STYLES, target |-> ret.part] \in rels

\* get_style with an unknown id on a part without styles relationship created
\* the styles part and returned the default paragraph style.
C11_Witness ==
    /\ ret.op = "get_style"
    /\ ret.created = 1
    /\ ret.arg = "bogus-id"
    /\ ret.type = "paragraph"
    /\ ret.style = "Normal"

\* C12: get_style_id ends in exactly one of three ways: None for None and for
\* a name of the default style of style_type; WrongStyleType for a name of a
\* style of another type and StyleNotFound for a name of no style; the id of
\* the named style otherwise. The call changes the relationships by at most
\* the edge to the styles part it creates.
C12_GetStyleId ==
    [][ret'.op = "get_style_id"
       => LET styles == StylesIn(parts'[ret'.part])
              named == {st \in styles : st.name = ret'.arg}
              absent == ret'.arg = None
          IN  /\ ret'.status \in {"ok", "WrongStyleType", "StyleNotFound"}
              /\ (ret'.status = "StyleNotFound") <=> (~absent /\ named = {})
              /\ (ret'.status = "WrongStyleType")
                 <=> (~absent /\ named # {} /\ \A st \in named : st.type # ret'.type)
              /\ (ret'.status = "ok" /\ ret'.style = None)
                 <=> (absent \/ \E st \in named : st.type = ret'.type /\ st.default)
              /\ (ret'.status = "ok" /\ ret'.style # None)
                 => \E st \in named :
                      st.type = ret'.type /\ ~st.default /\ st.style_id = ret'.style
              /\ rels \subseteq rels'
              /\ rels' \ rels \subseteq {[reltype |-> RT_STYLES, target |-> ret'.part]}
              /\ (rels' # rels) => RelsOfType(rels, RT_STYLES) = {}]_vars

\* A name of a paragraph style asked for as a character style, on a part whose
\* styles part the call created.
C12_Witness ==
    /\ ret.op = "get_style_id"
    /\ ret.status = "WrongStyleType"
    /\ ret.arg = "Heading 1"
    /\ ret.type = "character"
    /\ ret.created = 1

\* The largest plain number among the id texts, 0 when there is none.
MaxNumeric(ids) ==
    LET nums == {DecimalValue(ids[i]) : i \in {j \in 1..Len(ids) : IsPlainNumber(ids[j])}}
    IN  IF nums = {} THEN 0 ELSE Max(nums)

\* C13: a next_id read of this part that follows an earlier read with no
\* change of this part's own subtree returns the same value, whatever was
\* written into the sibling part meanwhile; and when both parts were read and
\* their subtrees hold the same largest numeric id (of numbers that int()
\* converts), both reads returned, and returned the same value.
C13_OwnSubtreeOnly ==
    [][/\ (ret'.op = "next_id" /\ ret'.status = "ok" /\ last_id # 0 /\ ~dirty)
          => ret'.num = last_id
       /\ (ret'.op = "next_id" /\ sibling'.status # "none"
           /\ AllFit(subtree') /\ AllFit(sibling'.subtree)
           /\ MaxNumeric(subtree') = MaxNumeric(sibling'.subtree))
          => /\ ret'.status = "ok"
             /\ sibling'.status = "ok"
             /\ ret'.num = sibling'.num]_vars

\* What remains of C13 for the reads that return: the value depends on the
\* part's own subtree alone, and equal largest numeric ids give equal values.
C13_ScopedWhenReturned ==
    [][/\ (ret'.op = "next_id" /\ ret'.status = "ok" /\ last_id # 0 /\ ~dirty)
          => ret'.num = last_id
       /\ (ret'.op = "next_id" /\ ret'.status = "ok" /\ sibling'.status = "ok"
           /\ MaxNumeric(subtree') = MaxNumeric(sibling'.subtree))
          => ret'.num = sibling'.num]_vars

\* No two numeric ids (of numbers that int() converts) have the same value.
DistinctNumbers(ids) ==
    \A i, j \in 1..Len(ids) :
        (i # j /\ IsPlainNumber(ids[i]) /\ IsPlainNumber(ids[j])
               /\ Fits(ids[i]) /\ Fits(ids[j]))
        => DecimalValue(ids[i]) # DecimalValue(ids[j])

\* C14: with callers that only add elements bearing the value next_id gives,
\* the ids of the subtree stay pairwise distinct as texts, numeric ids that are
\* pairwise distinct as numbers stay so, and every value given is larger than
\* all values given before.
C14_DistinctAndIncreasing ==
    [][/\ Distinct(subtree')
       /\ DistinctNumbers(subtree) => DistinctNumbers(subtree')
       /\ ret'.op = "insert" => \A v \in issued : ret'.num > v]_vars

\* Three elements were added in a row to a subtree that held the id 3.
C14_Witness ==
    /\ ret.op = "insert"
    /\ subtree = <<<<"3">>, <<"4">>, <<"5">>, <<"6">>>>
    /\ issued = {4, 5, 6}

\* C15: no step removes or retargets a relationship; once a relationship of
\* a singleton type exists, every access of that type returns its target,
\* which is the part the first access returned, and leaves the relationships
\* of the type as they are.
C15_RelsOnlyGrow ==
    [][/\ rels \subseteq rels'
       /\ \A a \in Resolvers :
            (ret'.op = a.op /\ RelsOfType(rels, a.reltype) # {})
            => /\ ret'.part \in {r.target : r \in RelsOfType(rels, a.reltype)}
               /\ RelsOfType(rels', a.reltype) = RelsOfType(rels, a.reltype)
               /\ first_result[a.reltype] # 0 => ret'.part = first_result[a.reltype]]_vars

\* The loaded styles part was returned again, after the numbering part had
\* been created and memoized and the settings part created.
C15_Witness ==
    /\ ret.op = "_styles_part"
    /\ ret.again
    /\ parts[ret.part].origin = "loaded"
    /\ numbering_cache # 0
    /\ parts[numbering_cache].origin = "default"
    /\ first_result[RT_SETTINGS] # 0
    /\ Cardinality(rels) >= 3

\* The threads that have returned from the accessor with a part.
Returned == {t \in Threads : threads.th[t].pc = "done" /\ threads.th[t].status = "ok"}

DefaultsOfType(reltype) ==
    {i \in 1..Len(parts) : parts[i] = [kind |-> KindOf(reltype), origin |-> "default"]}

\* C16: the steps of an accessor interleave freely unless the callers
\* serialize them. Threads obtain different parts only when two threads saw
\* the miss, two default parts were created and two relationships of the
\* type were left behind; under the single-writer
\* discipline at most one relationship of each singleton type and at most one
\* default part exist, no thread fails, and all threads obtain the same part.
C16_RaceOnlyWithoutDiscipline ==
    /\ \A t, u \in Returned :
         threads.th[t].result # threads.th[u].result
         => /\ Cardinality({v \in Threads : threads.th[v].missed}) >= 2
            /\ Cardinality(DefaultsOfType(threads.reltype)) >= 2
            /\ Cardinality(RelsOfType(rels, threads.reltype)) >= 2
    /\ threads.mode = "single_writer"
       => /\ \A ty \in SingletonTypes : Cardinality(RelsOfType(rels, ty)) <= 1
          /\ Cardinality(DefaultsOfType(threads.reltype)) <= 1
          /\ \A t \in Threads : threads.th[t].status \in {"none", "ok"}
          /\ \A t, u \in Returned : threads.th[t].result = threads.th[u].result

\* Without discipline two threads both saw the miss, two default parts were
\* created, and the threads returned different parts.
C16_Witness ==
    /\ threads.mode = "none"
    /\ threads.reltype = RT_STYLES
    /\ \E t, u \in Returned :
         /\ threads.th[t].missed
         /\ threads.th[u].missed
         /\ threads.th[t].result # threads.th[u].result
    /\ Cardinality(DefaultsOfType(RT_STYLES)) = 2
    /\ Cardinality(RelsOfType(rels, RT_STYLES)) = 2

====
